---- MODULE Spec2Model ----
(***************************************************************************)
(* Model of the NanoClaw agent runner, container/agent-runner/src/index.ts *)
(* The process reads a task from stdin, obtains an engine session, runs    *)
(* the query loop (runQuery / waitForIpcMessage), polls the IPC inbox      *)
(* while a query is in flight, archives the conversation and shuts down.   *)
(*                                                                         *)
(* A text is a sequence of atoms (strings); joining texts with "\n" is     *)
(* concatenation of the sequences.                                         *)
(***************************************************************************)
EXTENDS Integers, Sequences, FiniteSets, TLC

\* ------------------------------------------------------------------ bounds
\* number of message files the host writes during one run
MaxFiles == 2
\* the same number for the runs that start at the query loop
LoopFiles == 3
\* the same number for the runs the shutdown is followed in; at most LoopFiles
ShutdownFiles == 2
\* number of file names in the inbox a single drain is run on
MaxProbeNames == 4
\* length of the texts an envelope written to stdout carries
MaxTextLen == 2

\* ------------------------------------------------------- values of the code
\* JS undefined for an identifier (sessionId, groupFolder)
UNDEF == "<undefined>"
\* JS undefined / null for a text
UndefText == <<"<undefined>">>
NullText == <<"<null>">>

\* JS truthiness of a string-or-undefined value
Truthy(s) == s # UNDEF /\ s # ""

\* String(x) for a text that may be undefined
ToStr(t) == IF t = UndefText THEN <<"undefined">> ELSE t

\* messages.join('\n')
RECURSIVE Join(_)
Join(msgs) == IF msgs = <<>> THEN <<>> ELSE Head(msgs) \o Join(Tail(msgs))

\* the prefix main puts before the prompt of a scheduled task
SchedPrefix == <<"[SCHEDULED TASK]">>

\* ---------------------------------------------------------- stdin documents
Garbage == [json |-> "garbage", prompt |-> UndefText, sessionId |-> UNDEF,
            groupFolder |-> UNDEF, isScheduledTask |-> FALSE]
JsonNull == [json |-> "null", prompt |-> UndefText, sessionId |-> UNDEF,
             groupFolder |-> UNDEF, isScheduledTask |-> FALSE]
Doc(p, s, g, sch) == [json |-> "object", prompt |-> p, sessionId |-> s,
                      groupFolder |-> g, isScheduledTask |-> sch]

\* what the stdin stream can hold
StdinDocs ==
  { Garbage, JsonNull,
    Doc(UndefText, "", UNDEF, FALSE),
    Doc(<<"hello">>, UNDEF, "g1", FALSE),
    Doc(<<"hello">>, "sOld", "g1", TRUE) }

\* the interface ContainerInput: prompt and groupFolder are required
ContainerInput(d) ==
  /\ d.json = "object"
  /\ d.prompt # UndefText
  /\ d.groupFolder # UNDEF

\* lines 396-400: JSON.parse(stdinData), then containerInput.groupFolder is read
ParseThrows(d) == d.json = "garbage" \/ d.json = "null"

\* --------------------------------------------------------- stdout envelopes
\* interface ContainerOutput; an absent optional field is UNDEF
ContainerOutput(st, res, sid, err) ==
  [status |-> st, result |-> res, newSessionId |-> sid, error |-> err]

\* lines 50-51
OUTPUT_START_MARKER == "---NANOCLAW_OUTPUT_START---"
OUTPUT_END_MARKER == "---NANOCLAW_OUTPUT_END---"

\* characters with a role in JSON text; every other atom of a text stands
\* for characters that JSON.stringify copies
QUOTE == "\""
BACKSLASH == "\\"
NEWLINE == "\n"

\* JSON.stringify of one character of a string: the quote, the backslash and
\* the line feed are escaped; the marker literals hold none of them
Escape(c) ==
  IF c = QUOTE THEN <<BACKSLASH, QUOTE>>
  ELSE IF c = BACKSLASH THEN <<BACKSLASH, BACKSLASH>>
  ELSE IF c = NEWLINE THEN <<BACKSLASH, "n">>
  ELSE <<c>>

RECURSIVE EscapeText(_)
EscapeText(t) ==
  IF t = <<>> THEN <<>> ELSE Escape(Head(t)) \o EscapeText(Tail(t))

\* JSON.stringify of a string, of a string-or-null, of a property
JsonString(t) == <<QUOTE>> \o EscapeText(t) \o <<QUOTE>>
JsonValue(t) == IF t = NullText THEN <<"null">> ELSE JsonString(t)
JsonMember(k, v) == JsonString(<<k>>) \o <<":">> \o v

\* JSON.stringify(output), line 55: the properties in the order of the
\* object literals of runQuery and main; an undefined property is left out
JSONstringify(o) ==
  <<"{">> \o JsonMember("status", JsonString(<<o.status>>))
         \o <<",">> \o JsonMember("result", JsonValue(o.result))
         \o (IF o.newSessionId = UNDEF THEN <<>>
             ELSE <<",">> \o JsonMember("newSessionId", JsonString(<<o.newSessionId>>)))
         \o (IF o.error = UNDEF THEN <<>>
             ELSE <<",">> \o JsonMember("error", JsonString(o.error)))
         \o <<"}">>

\* writeOutput, lines 53-57: three console.log calls, each ends its line
writeOutput(o) ==
  <<OUTPUT_START_MARKER, NEWLINE>> \o JSONstringify(o)
     \o <<NEWLINE, OUTPUT_END_MARKER, NEWLINE>>

\* ---- the reader of stdout on the host side
\* a string literal of JSON text from position i (after the opening quote)
RECURSIVE ScanString(_, _, _)
ScanString(ts, i, acc) ==
  IF i > Len(ts) \/ ts[i] = NEWLINE THEN [ok |-> FALSE, val |-> <<>>, next |-> i]
  ELSE IF ts[i] = QUOTE THEN [ok |-> TRUE, val |-> acc, next |-> i + 1]
  ELSE IF ts[i] = BACKSLASH
  THEN IF i + 1 > Len(ts) \/ ts[i + 1] \notin {QUOTE, BACKSLASH, "n"}
       THEN [ok |-> FALSE, val |-> <<>>, next |-> i]
       ELSE ScanString(ts, i + 2,
                       Append(acc, IF ts[i + 1] = "n" THEN NEWLINE ELSE ts[i + 1]))
  ELSE ScanString(ts, i + 1, Append(acc, ts[i]))

\* a JSON value (string or null) at position i
ScanValue(ts, i) ==
  IF i > Len(ts) THEN [ok |-> FALSE, val |-> <<>>, next |-> i]
  ELSE IF ts[i] = "null" THEN [ok |-> TRUE, val |-> NullText, next |-> i + 1]
  ELSE IF ts[i] = QUOTE THEN ScanString(ts, i + 1, <<>>)
  ELSE [ok |-> FALSE, val |-> <<>>, next |-> i]

\* what JSON.parse throws
SyntaxError == [ok |-> FALSE]

\* the members of a JSON object from position i; obj holds the members read
RECURSIVE ScanMembers(_, _, _)
ScanMembers(ts, i, obj) ==
  IF i > Len(ts) \/ ts[i] # QUOTE THEN SyntaxError
  ELSE LET k == ScanString(ts, i + 1, <<>>)
       IN IF ~k.ok \/ k.next > Len(ts) \/ ts[k.next] # ":" THEN SyntaxError
          ELSE LET v == ScanValue(ts, k.next + 1)
                   o == [ok |-> TRUE,
                         keys |-> Append(obj.keys, k.val),
                         vals |-> Append(obj.vals, v.val)]
               IN IF ~v.ok \/ v.next > Len(ts) THEN SyntaxError
                  ELSE IF ts[v.next] = "," THEN ScanMembers(ts, v.next + 1, o)
                  ELSE IF ts[v.next] = "}" /\ v.next = Len(ts) THEN o
                  ELSE SyntaxError

\* JSON.parse of the text of an object
JSONparse(ts) ==
  IF ts = <<>> \/ ts[1] # "{" THEN SyntaxError
  ELSE ScanMembers(ts, 2, [ok |-> TRUE, keys |-> <<>>, vals |-> <<>>])

\* String.prototype.indexOf: the first position of a literal, from a position
\* on; 0 when there is none
IndexOf(ts, lit, from) ==
  LET hits == { i \in from..Len(ts) : ts[i] = lit }
  IN IF hits = {} THEN 0 ELSE CHOOSE i \in hits : \A j \in hits : i <= j

\* String.prototype.trim
RECURSIVE Trim(_)
Trim(ts) ==
  IF ts # <<>> /\ Head(ts) = NEWLINE THEN Trim(Tail(ts))
  ELSE IF ts # <<>> /\ ts[Len(ts)] = NEWLINE THEN Trim(SubSeq(ts, 1, Len(ts) - 1))
  ELSE ts

\* the host splits stdout on the start marker and the end marker that
\* follows it and decodes the text between them
HostParse(stream) ==
  LET s == IndexOf(stream, OUTPUT_START_MARKER, 1)
      e == IF s = 0 THEN 0 ELSE IndexOf(stream, OUTPUT_END_MARKER, s + 1)
  IN IF s = 0 \/ e = 0 THEN SyntaxError
     ELSE JSONparse(Trim(SubSeq(stream, s + 1, e - 1)))

\* the property k of a parsed object: whether it has one, and its value
Property(obj, k) ==
  LET hits == { i \in DOMAIN obj.keys : obj.keys[i] = <<k>> }
  IN IF hits = {} THEN [has |-> FALSE, val |-> <<>>]
     ELSE [has |-> TRUE, val |-> obj.vals[CHOOSE i \in hits : TRUE]]

\* a parsed object is the envelope o: the same properties, the same values
SameOutput(obj, o) ==
  /\ obj.ok
  /\ Property(obj, "status") = [has |-> TRUE, val |-> <<o.status>>]
  /\ Property(obj, "result") = [has |-> TRUE, val |-> o.result]
  /\ IF o.newSessionId = UNDEF THEN ~Property(obj, "newSessionId").has
     ELSE Property(obj, "newSessionId") = [has |-> TRUE, val |-> <<o.newSessionId>>]
  /\ IF o.error = UNDEF THEN ~Property(obj, "error").has
     ELSE Property(obj, "error") = [has |-> TRUE, val |-> o.error]
  /\ Len(obj.keys) = 2 + (IF o.newSessionId = UNDEF THEN 0 ELSE 1)
                       + (IF o.error = UNDEF THEN 0 ELSE 1)

\* ------------------------------------------------------------- inbox files
\* the i-th file name the host uses: fixed width, so lexical = arrival order
FileName(i) == <<i \div 10, i % 10>>

\* String.prototype comparison of two names, as Array.prototype.sort() uses it
RECURSIVE LexLess(_, _)
LexLess(a, b) ==
  IF a = <<>> THEN b # <<>>
  ELSE IF b = <<>> THEN FALSE
  ELSE IF Head(a) # Head(b) THEN Head(a) < Head(b)
  ELSE LexLess(Tail(a), Tail(b))

\* faulty variant of SortFiles: shorter names first, then code-unit order
RECURSIVE SortFiles_ShortFirst(_)
SortFiles_ShortFirst(fs) ==
  IF fs = {} THEN <<>>
  ELSE LET m == CHOOSE f \in fs : \A g \in fs \ {f} :
                    \/ Len(f.name) < Len(g.name)
                    \/ Len(f.name) = Len(g.name) /\ LexLess(f.name, g.name)
       IN <<m>> \o SortFiles_ShortFirst(fs \ {m})

\* files.sort(): the names of a set of files in ascending order
RECURSIVE SortFiles(_)
SortFiles(fs) ==
  IF fs = {} THEN <<>>
  ELSE LET m == CHOOSE f \in fs : \A g \in fs \ {f} : LexLess(f.name, g.name)
       IN <<m>> \o SortFiles(fs \ {m})

\* the text of the i-th message
MsgText(i) == <<"m" \o ToString(i)>>

\* file contents the host can write
MessageFile(i) == [name |-> FileName(i), dotJson |-> TRUE, json |-> "object",
                   type |-> "message", text |-> MsgText(i)]
CorruptFile(i) == [name |-> FileName(i), dotJson |-> TRUE, json |-> "garbage",
                   type |-> UNDEF, text |-> UndefText]

\* lines 94-98: the texts one file contributes to the result of a drain
FileMessages(f) ==
  IF f.json = "object" /\ f.type = "message" /\ f.text # UndefText /\ f.text # <<>>
  THEN <<f.text>> ELSE <<>>

RECURSIVE DrainMessages(_)
DrainMessages(files) ==
  IF files = <<>> THEN <<>>
  ELSE FileMessages(Head(files)) \o DrainMessages(Tail(files))

\* lines 94-97: the exception the try block throws for a file: JSON.parse
\* rejects the content, or data.type is read of the JSON value null
FileThrows(f) ==
  IF f.json = "garbage" THEN "SyntaxError"
  ELSE IF f.json = "null" THEN "TypeError"
  ELSE "none"

\* an entry of the unlink log of a drain: unlinkSync(name) and whether the
\* file was there
Unlink(n, ok) == [name |-> n, ok |-> ok]

\* faulty variant of FileUnlinks: the catch block does not unlink
FileUnlinks_NoCatchUnlink(f) ==
  IF FileThrows(f) = "SyntaxError" THEN <<>>
  ELSE <<Unlink(f.name, TRUE)>>

\* lines 95 and 101: the unlinkSync calls made for one file. Line 95 runs
\* when JSON.parse returned; the catch block unlinks again, and that call
\* fails (ignored) when line 95 had removed the file
FileUnlinks(f) ==
  IF FileThrows(f) = "SyntaxError" THEN <<Unlink(f.name, TRUE)>>
  ELSE IF FileThrows(f) = "TypeError"
  THEN <<Unlink(f.name, TRUE), Unlink(f.name, FALSE)>>
  ELSE <<Unlink(f.name, TRUE)>>

RECURSIVE DrainUnlinks(_)
DrainUnlinks(files) ==
  IF files = <<>> THEN <<>>
  ELSE FileUnlinks(Head(files)) \o DrainUnlinks(Tail(files))

\* lines 99 and 105: the exceptions a catch clause of drainIpcInput catches
\* (catch (err): all of them)
Caught == {"SyntaxError", "TypeError"}

\* faulty variant of drainIpcInput: the files are read and left in place
drainIpcInput_KeepsFiles(d) ==
  LET files == SortFiles({ f \in d : f.dotJson })
  IN [messages |-> DrainMessages(files), unlinks |-> <<>>, raised |-> FALSE,
      dir |-> d]

\* drainIpcInput: the .json files of the directory, sorted; every one of them
\* is unlinked (line 95 or line 101); the texts of the well-formed ones
drainIpcInput(d) ==
  LET files == SortFiles({ f \in d : f.dotJson })
      unlinks == DrainUnlinks(files)
  IN [messages |-> DrainMessages(files),
      unlinks |-> unlinks,
      raised |-> \E i \in DOMAIN files :
                   FileThrows(files[i]) \notin Caught \cup {"none"},
      dir |-> { f \in d : ~ \E i \in DOMAIN unlinks :
                               unlinks[i].name = f.name /\ unlinks[i].ok }]

\* ------------------------------------------------------ engine responses
TextPart(t) == [type |-> "text", text |-> t]
ToolPart == [type |-> "tool", text |-> UndefText]
Response(ps, so) == [parts |-> ps, structured_output |-> so]

\* the data object the engine answers a prompt with: a reply with text
\* fragments around a tool fragment
Responses ==
  { Response(<<TextPart(<<"h">>), ToolPart, TextPart(<<"i">>)>>, UndefText) }

RECURSIVE TextParts(_)
TextParts(ps) ==
  IF ps = <<>> THEN <<>>
  ELSE LET p == Head(ps)
       IN (IF p.type = "text" /\ p.text # UndefText /\ p.text # <<>>
           THEN <<p.text>> ELSE <<>>) \o TextParts(Tail(ps))

\* faulty variant of extractResultText: only the first text fragment is used
extractResultText_FirstPart(r) ==
  IF TextParts(r.parts) # <<>> THEN Head(TextParts(r.parts))
  ELSE IF r.structured_output # UndefText THEN r.structured_output
  ELSE NullText

\* extractResultText; JSON.stringify of the structured output is its text
extractResultText(r) ==
  IF TextParts(r.parts) # <<>> THEN Join(TextParts(r.parts))
  ELSE IF r.structured_output # UndefText THEN r.structured_output
  ELSE NullText

\* outcomes of the foreground client.session.prompt call: the call resolves
\* with data, resolves with an error, or rejects
FgData(r) == [kind |-> "data", data |-> r, error |-> UndefText]
FgError == [kind |-> "error", data |-> Response(<<>>, UndefText), error |-> <<"engine-error">>]
FgThrow == [kind |-> "throw", data |-> Response(<<>>, UndefText), error |-> <<"fetch failed">>]
FgOutcomes == { FgData(r) : r \in Responses } \cup { FgError, FgThrow }

\* ------------------------------------------------------------------- state
VARIABLES
  pc,                   \* where main() is
  stdin,                \* the document on standard input
  sessionId,            \* main: let sessionId
  session,              \* main: let session (TRUE when defined)
  prompt,               \* main: let prompt
  conversationMessages, \* main: const conversationMessages
  outputs,              \* the envelopes written by writeOutput, in order
  dir,                  \* the files in IPC_INPUT_DIR
  sentinel,             \* TRUE when IPC_INPUT_CLOSE_SENTINEL exists
  nextFile,             \* index of the next file the host writes
  closes,               \* TRUE once the host has requested the close
  turn,                 \* number of runQuery calls so far
  poller,               \* per runQuery call: its closure and its poller
  engineCalls,          \* the calls made on client.session, in order
  exitCode,             \* -1 while the process runs
  archived,             \* the messages handed to archiveConversation
  archiveResult,        \* what archiveConversation did
  serverClosed,         \* opencode.server.close() was called
  closeDuring,          \* the turn whose foreground call was in flight when
                        \* the host created the sentinel (0: none)
  outcomes,             \* per finished runQuery call: how its try block ended
  resume,               \* how client.session.get answered ("none": not called)
  written,              \* indices of the well-formed message files written
  teardown,             \* the calls main makes after the query loop, in order
  failedForwards,       \* positions in engineCalls of the forwards that failed
  probe                 \* the operation under test of DrainSpec and FrameSpec

vars == <<pc, stdin, sessionId, session, prompt, conversationMessages, outputs,
          dir, sentinel, nextFile, closes, turn, poller, engineCalls, exitCode,
          archived, archiveResult, serverClosed, closeDuring, outcomes, resume,
          written, teardown, failedForwards, probe>>

\* one more query than there are message files can be started
MaxTurns == MaxFiles + 1

\* no test of a single operation is running
NoProbe == [op |-> "none"]

\* the closure of a runQuery call that has not started
IdlePoller == [pc |-> "idle", ipcPolling |-> FALSE, closedDuringQuery |-> FALSE,
               queue |-> <<>>]

\* an entry of engineCalls
Call(op, id, text, t, n) == [op |-> op, id |-> id, text |-> text, turn |-> t, recLen |-> n]

Init ==
  /\ pc = "parse"
  /\ stdin \in StdinDocs
  /\ sessionId = UNDEF
  /\ session = FALSE
  /\ prompt = UndefText
  /\ conversationMessages = <<>>
  /\ outputs = <<>>
  /\ dir = {}
  /\ sentinel \in BOOLEAN
  /\ nextFile = 1
  /\ closes = FALSE
  /\ turn = 0
  /\ poller = [k \in 1..MaxTurns |-> IdlePoller]
  /\ engineCalls = <<>>
  /\ exitCode = -1
  /\ archived = <<>>
  /\ archiveResult = "none"
  /\ serverClosed = FALSE
  /\ closeDuring = 0
  /\ outcomes = <<>>
  /\ resume = "none"
  /\ written = {}
  /\ teardown = <<>>
  /\ failedForwards = {}
  /\ probe = NoProbe

\* the process is alive
Running == exitCode = -1

\* ------------------------------------------------------------------- host
\* the host writes the next message file (well-formed or corrupt); it writes
\* at most n files in a run
HostWrite(n) ==
  /\ Running
  /\ nextFile <= n
  /\ \E f \in {MessageFile(nextFile), CorruptFile(nextFile)} :
       /\ dir' = dir \cup {f}
       /\ written' = IF FileMessages(f) # <<>> THEN written \cup {nextFile}
                     ELSE written
  /\ nextFile' = nextFile + 1
  /\ UNCHANGED <<pc, stdin, sessionId, session, prompt, conversationMessages,
                 outputs, sentinel, closes, turn, poller, engineCalls, exitCode,
                 archived, archiveResult, serverClosed, closeDuring,
                 outcomes, resume, teardown, failedForwards, probe>>

HostWriteMessage == HostWrite(MaxFiles)

\* the host creates the _close sentinel, once in a run
HostWriteClose ==
  /\ Running
  /\ ~closes
  /\ ~sentinel
  /\ sentinel' = TRUE
  /\ closes' = TRUE
  /\ closeDuring' = IF pc = "fg" THEN turn ELSE closeDuring
  /\ UNCHANGED <<pc, stdin, sessionId, session, prompt, conversationMessages,
                 outputs, dir, nextFile, turn, poller, engineCalls, exitCode,
                 archived, archiveResult, serverClosed,
                 outcomes, resume,
                 written, teardown, failedForwards, probe>>

\* ------------------------------------------------------------------- main
\* an exception that main() does not catch: the promise of main() rejects
\* and the process ends with a non-zero status
Crash == pc' = "crashed" /\ exitCode' = 1

\* lines 395-408
ParseInput ==
  /\ pc = "parse"
  /\ IF ParseThrows(stdin)
     THEN /\ outputs' = Append(outputs,
                 ContainerOutput("error", NullText, UNDEF, <<"Failed to parse input">>))
          /\ pc' = "exited"
          /\ exitCode' = 1
     ELSE /\ pc' = "setup"
          /\ UNCHANGED <<outputs, exitCode>>
  /\ UNCHANGED <<stdin, sessionId, session, prompt, conversationMessages, dir,
                 sentinel, nextFile, closes, turn, poller, engineCalls, archived,
                 archiveResult, serverClosed, closeDuring,
                 outcomes, resume,
                 written, teardown, failedForwards, probe>>

\* lines 410-433: write the engine config, remove a stale sentinel, start the
\* engine; writeOpencodeConfig or createOpencode may throw
Setup ==
  /\ pc = "setup"
  /\ \E fail \in {"none", "config", "server"} :
       /\ sentinel' = IF fail = "config" THEN sentinel ELSE FALSE
       /\ IF fail = "none"
          THEN pc' = "resume" /\ sessionId' = stdin.sessionId /\ UNCHANGED exitCode
          ELSE Crash /\ UNCHANGED sessionId
  /\ UNCHANGED <<stdin, session, prompt, conversationMessages, outputs, dir,
                 nextFile, closes, turn, poller, engineCalls, archived,
                 archiveResult, serverClosed, closeDuring,
                 outcomes, resume,
                 written, teardown, failedForwards, probe>>

\* faulty variant of ResumeSession: a fetch that returns no data counts as
\* a resumed session
ResumeSession_NoDataResumes ==
  /\ pc = "resume"
  /\ pc' = "create"
  /\ IF Truthy(sessionId)
     THEN /\ engineCalls' = Append(engineCalls, Call("get", sessionId, <<>>, 0, 0))
          /\ \E r \in {"data", "nodata", "throw"} :
               /\ session' = (r # "throw")
               /\ sessionId' = IF r = "throw" THEN UNDEF ELSE sessionId
               /\ resume' = r
     ELSE UNCHANGED <<engineCalls, session, sessionId, resume>>
  /\ UNCHANGED <<stdin, prompt, conversationMessages, outputs, dir, sentinel,
                 nextFile, closes, turn, poller, exitCode, archived,
                 archiveResult, serverClosed, closeDuring, outcomes,
                 written, teardown, failedForwards, probe>>

\* lines 436-448
ResumeSession ==
  /\ pc = "resume"
  /\ pc' = "create"
  /\ IF Truthy(sessionId)
     THEN /\ engineCalls' = Append(engineCalls, Call("get", sessionId, <<>>, 0, 0))
          /\ \E r \in {"data", "nodata", "throw"} :
               /\ session' = (r = "data")
               /\ sessionId' = IF r = "throw" THEN UNDEF ELSE sessionId
               /\ resume' = r
     ELSE UNCHANGED <<engineCalls, session, sessionId, resume>>
  /\ UNCHANGED <<stdin, prompt, conversationMessages, outputs, dir, sentinel,
                 nextFile, closes, turn, poller, exitCode, archived,
                 archiveResult, serverClosed, closeDuring, outcomes,
                 written, teardown, failedForwards, probe>>

\* lines 450-457: created.data is undefined when the engine reports an error
CreateSession ==
  /\ pc = "create"
  /\ IF ~session
     THEN /\ engineCalls' = Append(engineCalls, Call("create", UNDEF, <<>>, 0, 0))
          /\ \E r \in {"data", "nodata", "throw"} :
               IF r = "data"
               THEN /\ session' = TRUE
                    /\ sessionId' = "sNew"
                    /\ pc' = "inject"
                    /\ UNCHANGED exitCode
               ELSE Crash /\ UNCHANGED <<session, sessionId>>
     ELSE pc' = "inject" /\ UNCHANGED <<engineCalls, session, sessionId, exitCode>>
  /\ UNCHANGED <<stdin, prompt, conversationMessages, outputs, dir, sentinel,
                 nextFile, closes, turn, poller, archived, archiveResult,
                 serverClosed, closeDuring,
                 outcomes, resume,
                 written, teardown, failedForwards, probe>>

\* lines 459-470: buildSystemContext returns null when no global file exists
InjectContext ==
  /\ pc = "inject"
  /\ \E systemContext \in {NullText, <<"AGENTS.md">>} :
       IF systemContext # NullText
       THEN /\ engineCalls' = Append(engineCalls,
                   Call("context", sessionId, systemContext, 0, 0))
            /\ \E throws \in BOOLEAN :
                 IF throws THEN Crash ELSE pc' = "build" /\ UNCHANGED exitCode
       ELSE pc' = "build" /\ UNCHANGED <<engineCalls, exitCode>>
  /\ UNCHANGED <<stdin, sessionId, session, prompt, conversationMessages,
                 outputs, dir, sentinel, nextFile, closes, turn, poller,
                 archived, archiveResult, serverClosed, closeDuring,
                 outcomes, resume,
                 written, teardown, failedForwards, probe>>

\* lines 472-484
BuildInitialPrompt ==
  /\ pc = "build"
  /\ LET p0 == IF stdin.isScheduledTask
               THEN SchedPrefix \o ToStr(stdin.prompt) ELSE stdin.prompt
         d == drainIpcInput(dir)
     IN /\ prompt' = IF d.messages # <<>> THEN ToStr(p0) \o Join(d.messages) ELSE p0
        /\ dir' = d.dir
  /\ pc' = "turn"
  /\ UNCHANGED <<stdin, sessionId, session, conversationMessages, outputs,
                 sentinel, nextFile, closes, turn, poller, engineCalls, exitCode,
                 archived, archiveResult, serverClosed, closeDuring,
                 outcomes, resume,
                 written, teardown, failedForwards, probe>>

\* ---------------------------------------------------------------- runQuery
\* faulty variant of AfterQuery: main ignores closedDuringQuery
AfterQuery_NoBreak(k, closed, outs) ==
  /\ pc' = "await"
  /\ outputs' = Append(outs, ContainerOutput("success", NullText, sessionId, UNDEF))

\* lines 496-502 of main, after runQuery has returned for turn k: leave the
\* loop when the query was closed, otherwise write the session update and
\* call waitForIpcMessage
AfterQuery(k, closed, outs) ==
  IF closed
  THEN pc' = "archive" /\ outputs' = outs
  ELSE /\ pc' = "await"
       /\ outputs' = Append(outs, ContainerOutput("success", NullText, sessionId, UNDEF))

\* lines 488-494 of main and 308-354 of runQuery: push the user message, arm
\* the poller, submit the prompt. prompt.length throws for an undefined
\* prompt: the catch of runQuery reports it and no call is made
StartQuery ==
  /\ pc = "turn"
  /\ turn < Len(poller)
  /\ turn' = turn + 1
  /\ conversationMessages' =
       Append(conversationMessages, [role |-> "user", content |-> prompt])
  /\ IF prompt = UndefText
     THEN /\ poller' = [poller EXCEPT ![turn + 1] =
                 [pc |-> "armed", ipcPolling |-> FALSE,
                  closedDuringQuery |-> FALSE, queue |-> <<>>]]
          /\ AfterQuery(turn + 1, FALSE,
                 Append(outputs, ContainerOutput("error", NullText, sessionId,
                                                 <<"TypeError">>)))
          /\ outcomes' = Append(outcomes, [kind |-> "typeerror",
                                           data |-> Response(<<>>, UndefText)])
          /\ UNCHANGED engineCalls
     ELSE /\ poller' = [poller EXCEPT ![turn + 1] =
                 [pc |-> "armed", ipcPolling |-> TRUE,
                  closedDuringQuery |-> FALSE, queue |-> <<>>]]
          /\ engineCalls' = Append(engineCalls,
                 Call("prompt", sessionId, prompt, turn + 1,
                      Len(conversationMessages')))
          /\ pc' = "fg"
          /\ UNCHANGED <<outputs, outcomes>>
  /\ UNCHANGED <<stdin, sessionId, session, prompt, dir, sentinel, nextFile,
                 closes, exitCode, archived, archiveResult, serverClosed,
                 closeDuring, resume,
                 written, teardown, failedForwards, probe>>

\* faulty variant of QueryOutput: a rejected call is not reported
QueryOutput_DropThrow(o, sid) ==
  IF o.kind = "data"
  THEN <<ContainerOutput("success", extractResultText(o.data), sid, UNDEF)>>
  ELSE IF o.kind = "error"
  THEN <<ContainerOutput("error", NullText, sid, o.error)>>
  ELSE <<>>

\* lines 356-385: the envelope runQuery writes for an outcome of the call
QueryOutput(o, sid) ==
  IF o.kind = "data"
  THEN <<ContainerOutput("success", extractResultText(o.data), sid, UNDEF)>>
  ELSE IF o.kind = "error" \/ o.kind = "throw"
  THEN <<ContainerOutput("error", NullText, sid, o.error)>>
  ELSE <<>>

\* lines 349-387 of runQuery and 496-505 of main: the foreground call returns
ForegroundReturn ==
  /\ pc = "fg"
  /\ \E o \in FgOutcomes :
       /\ AfterQuery(turn, poller[turn].closedDuringQuery,
                     outputs \o QueryOutput(o, sessionId))
       /\ outcomes' = Append(outcomes, [kind |-> o.kind, data |-> o.data])
  /\ poller' = [poller EXCEPT ![turn].ipcPolling = FALSE]
  /\ UNCHANGED <<stdin, sessionId, session, prompt, conversationMessages, dir,
                 sentinel, nextFile, closes, turn, engineCalls, exitCode,
                 archived, archiveResult, serverClosed, closeDuring, resume,
                 written, teardown, failedForwards, probe>>

\* faulty variant of PollIpcDuringQuery: a tick does not look at ipcPolling
PollIpcDuringQuery_NoFlagCheck(k) ==
  /\ poller[k].pc = "armed"
  /\ IF sentinel
     THEN /\ sentinel' = FALSE
          /\ poller' = [poller EXCEPT ![k].closedDuringQuery = TRUE,
                                      ![k].pc = "aborting"]
          /\ engineCalls' = Append(engineCalls, Call("abort", sessionId, <<>>, k, 0))
          /\ UNCHANGED dir
     ELSE LET d == drainIpcInput(dir)
          IN /\ dir' = d.dir
             /\ IF d.messages # <<>>
                THEN /\ engineCalls' = Append(engineCalls,
                            Call("forward", sessionId, Head(d.messages), k, 0))
                     /\ poller' = [poller EXCEPT ![k].pc = "forwarding",
                                                 ![k].queue = Tail(d.messages)]
                ELSE UNCHANGED <<engineCalls, poller>>
             /\ UNCHANGED sentinel
  /\ UNCHANGED <<pc, stdin, sessionId, session, prompt, conversationMessages,
                 outputs, nextFile, closes, turn, exitCode, archived,
                 archiveResult, serverClosed, closeDuring,
                 outcomes, resume,
                 written, teardown, failedForwards, probe>>

\* lines 311-343: one timer tick of the poller of turn k
PollIpcDuringQuery(k) ==
  /\ poller[k].pc = "armed"
  /\ IF ~poller[k].ipcPolling
     THEN /\ poller' = [poller EXCEPT ![k].pc = "stopped"]
          /\ UNCHANGED <<sentinel, dir, engineCalls>>
     ELSE IF sentinel
     THEN /\ sentinel' = FALSE
          /\ poller' = [poller EXCEPT ![k].closedDuringQuery = TRUE,
                                      ![k].pc = "aborting"]
          /\ engineCalls' = Append(engineCalls, Call("abort", sessionId, <<>>, k, 0))
          /\ UNCHANGED dir
     ELSE LET d == drainIpcInput(dir)
          IN /\ dir' = d.dir
             /\ IF d.messages # <<>>
                THEN /\ engineCalls' = Append(engineCalls,
                            Call("forward", sessionId, Head(d.messages), k, 0))
                     /\ poller' = [poller EXCEPT ![k].pc = "forwarding",
                                                 ![k].queue = Tail(d.messages)]
                ELSE UNCHANGED <<engineCalls, poller>>
             /\ UNCHANGED sentinel
  /\ UNCHANGED <<pc, stdin, sessionId, session, prompt, conversationMessages,
                 outputs, nextFile, closes, turn, exitCode, archived,
                 archiveResult, serverClosed, closeDuring,
                 outcomes, resume,
                 written, teardown, failedForwards, probe>>

\* faulty variant of AbortReturn: a failure of the abort call is not caught
\* and ends the process
AbortReturn_FailureEscapes(k) ==
  /\ poller[k].pc = "aborting"
  /\ poller' = [poller EXCEPT ![k].ipcPolling = FALSE, ![k].pc = "stopped"]
  /\ \E ok \in BOOLEAN : IF ok THEN UNCHANGED <<pc, exitCode>> ELSE Crash
  /\ UNCHANGED <<stdin, sessionId, session, prompt, conversationMessages,
                 outputs, dir, sentinel, nextFile, closes, turn, engineCalls,
                 archived, archiveResult, serverClosed, closeDuring,
                 outcomes, resume,
                 written, teardown, failedForwards, probe>>

\* lines 317-321: client.session.abort returns or throws
AbortReturn(k) ==
  /\ poller[k].pc = "aborting"
  /\ poller' = [poller EXCEPT ![k].ipcPolling = FALSE, ![k].pc = "stopped"]
  /\ UNCHANGED <<pc, stdin, sessionId, session, prompt, conversationMessages,
                 outputs, dir, sentinel, nextFile, closes, turn, engineCalls,
                 exitCode, archived, archiveResult, serverClosed, closeDuring,
                 outcomes, resume,
                 written, teardown, failedForwards, probe>>

\* the position in engineCalls of the forward the poller of turn k awaits
InFlight(k) ==
  CHOOSE i \in DOMAIN engineCalls :
    /\ engineCalls[i].op = "forward" /\ engineCalls[i].turn = k
    /\ \A j \in DOMAIN engineCalls :
         (engineCalls[j].op = "forward" /\ engineCalls[j].turn = k) => j <= i

\* lines 326-342: a forward returns, or throws and the failure is logged
\* (335-337); the loop forwards the next message, and after the last one the
\* timer is re-armed if ipcPolling
ForwardReturn(k) ==
  /\ poller[k].pc = "forwarding"
  /\ \E ok \in BOOLEAN :
       failedForwards' = IF ok THEN failedForwards
                         ELSE failedForwards \cup {InFlight(k)}
  /\ IF poller[k].queue # <<>>
     THEN /\ engineCalls' = Append(engineCalls,
                 Call("forward", sessionId, Head(poller[k].queue), k, 0))
          /\ poller' = [poller EXCEPT ![k].queue = Tail(poller[k].queue)]
     ELSE /\ poller' = [poller EXCEPT ![k].pc =
                 IF poller[k].ipcPolling THEN "armed" ELSE "stopped"]
          /\ UNCHANGED engineCalls
  /\ UNCHANGED <<pc, stdin, sessionId, session, prompt, conversationMessages,
                 outputs, dir, sentinel, nextFile, closes, turn, exitCode,
                 archived, archiveResult, serverClosed, closeDuring,
                 outcomes, resume, written, teardown, probe>>

\* ---------------------------------------------------------- waitForIpcMessage
\* faulty variant of WaitForIpcMessage: the inbox is drained before the
\* sentinel is looked at
WaitForIpcMessage_DrainFirst ==
  /\ pc = "await"
  /\ LET d == drainIpcInput(dir)
     IN /\ dir' = d.dir
        /\ IF d.messages # <<>>
           THEN prompt' = Join(d.messages) /\ pc' = "turn" /\ UNCHANGED sentinel
           ELSE IF sentinel
           THEN sentinel' = FALSE /\ pc' = "archive" /\ UNCHANGED prompt
           ELSE UNCHANGED <<prompt, pc, sentinel>>
  /\ UNCHANGED <<stdin, sessionId, session, conversationMessages, outputs,
                 nextFile, closes, turn, poller, engineCalls, exitCode,
                 archived, archiveResult, serverClosed, closeDuring,
                 outcomes, resume, written, teardown, failedForwards, probe>>

\* faulty variant of WaitForIpcMessage: poll() never looks at the sentinel
WaitForIpcMessage_NoCloseCheck ==
  /\ pc = "await"
  /\ LET d == drainIpcInput(dir)
     IN /\ dir' = d.dir
        /\ IF d.messages # <<>>
           THEN prompt' = Join(d.messages) /\ pc' = "turn"
           ELSE UNCHANGED <<prompt, pc>>
  /\ UNCHANGED <<stdin, sessionId, session, conversationMessages, outputs,
                 sentinel, nextFile, closes, turn, poller, engineCalls,
                 exitCode, archived, archiveResult, serverClosed, closeDuring,
                 outcomes, resume, written, teardown, failedForwards, probe>>

\* lines 113-124, and 506-512 of main: one run of poll()
WaitForIpcMessage ==
  /\ pc = "await"
  /\ IF sentinel
     THEN /\ sentinel' = FALSE
          /\ pc' = "archive"
          /\ UNCHANGED <<dir, prompt>>
     ELSE LET d == drainIpcInput(dir)
          IN /\ dir' = d.dir
             /\ IF d.messages # <<>>
                THEN prompt' = Join(d.messages) /\ pc' = "turn"
                ELSE UNCHANGED <<prompt, pc>>
             /\ UNCHANGED sentinel
  /\ UNCHANGED <<stdin, sessionId, session, conversationMessages, outputs,
                 nextFile, closes, turn, poller, engineCalls, exitCode,
                 archived, archiveResult, serverClosed, closeDuring,
                 outcomes, resume,
                 written, teardown, failedForwards, probe>>

\* ------------------------------------------------------------------ teardown
\* faulty variant of ArchiveWrites: a record without a completed turn is
\* treated like an empty one
ArchiveWrites_SkipSingle(messages) ==
  IF Len(messages) <= 1 THEN {"noop"}
  ELSE IF \E i \in 1..Len(messages) : messages[i].content = UndefText THEN {"failed"}
  ELSE {"written", "failed"}

\* archiveConversation, lines 178-200; formatTranscriptMarkdown reads
\* msg.content.length, which throws for an undefined content
ArchiveWrites(messages) ==
  IF messages = <<>> THEN {"noop"}
  ELSE IF \E i \in 1..Len(messages) : messages[i].content = UndefText THEN {"failed"}
  ELSE {"written", "failed"}

\* faulty variant of ArchiveConversation: a failure of the archiver escapes,
\* the engine is not closed and the process ends with a non-zero status
ArchiveConversation_FailureEscapes ==
  /\ pc = "archive"
  /\ archived' = conversationMessages
  /\ archiveResult' \in ArchiveWrites(conversationMessages)
  /\ IF archiveResult' = "failed"
     THEN /\ serverClosed' = FALSE
          /\ teardown' = <<"archiveConversation">>
          /\ Crash
     ELSE /\ serverClosed' = TRUE
          /\ teardown' = <<"archiveConversation", "server.close">>
          /\ pc' = "done"
          /\ exitCode' = 0
  /\ UNCHANGED <<stdin, sessionId, session, prompt, conversationMessages,
                 outputs, dir, sentinel, nextFile, closes, turn, poller,
                 engineCalls, closeDuring, outcomes, resume, written,
                 failedForwards, probe>>

\* lines 525-531: hand the record to archiveConversation, close the engine;
\* main returns and the process ends with 0. A failure inside
\* archiveConversation is caught there (lines 197-199)
ArchiveConversation ==
  /\ pc = "archive"
  /\ archived' = conversationMessages
  /\ archiveResult' \in ArchiveWrites(conversationMessages)
  /\ serverClosed' = TRUE
  /\ teardown' = <<"archiveConversation", "server.close">>
  /\ pc' = "done"
  /\ exitCode' = 0
  /\ UNCHANGED <<stdin, sessionId, session, prompt, conversationMessages,
                 outputs, dir, sentinel, nextFile, closes, turn, poller,
                 engineCalls, closeDuring, outcomes, resume, written,
                 failedForwards, probe>>

Next ==
  \/ HostWriteMessage
  \/ HostWriteClose
  \/ ParseInput
  \/ Setup
  \/ ResumeSession
  \/ CreateSession
  \/ InjectContext
  \/ BuildInitialPrompt
  \/ StartQuery
  \/ ForegroundReturn
  \/ \E k \in DOMAIN poller : PollIpcDuringQuery(k)
  \/ \E k \in DOMAIN poller : AbortReturn(k)
  \/ \E k \in DOMAIN poller : ForwardReturn(k)
  \/ WaitForIpcMessage
  \/ ArchiveConversation

Spec == Init /\ [][Next]_vars

TypeOK ==
  /\ exitCode \in {-1, 0, 1}
  /\ turn \in 0..Len(poller)

\* ------------------------------------------------------- the query loop
\* the state in which main reaches line 472 for a task without a session id:
\* the session was created, nothing was written yet
LoopInit ==
  /\ pc = "build"
  /\ stdin = Doc(<<"hello">>, UNDEF, "g1", FALSE)
  /\ sessionId = "sNew"
  /\ session = TRUE
  /\ prompt = UndefText
  /\ conversationMessages = <<>>
  /\ outputs = <<>>
  /\ dir = {}
  /\ sentinel = FALSE
  /\ nextFile = 1
  /\ closes = FALSE
  /\ turn = 0
  /\ poller = [k \in 1..(LoopFiles + 1) |-> IdlePoller]
  /\ engineCalls = <<Call("create", UNDEF, <<>>, 0, 0)>>
  /\ exitCode = -1
  /\ archived = <<>>
  /\ archiveResult = "none"
  /\ serverClosed = FALSE
  /\ closeDuring = 0
  /\ outcomes = <<>>
  /\ resume = "none"
  /\ written = {}
  /\ teardown = <<>>
  /\ failedForwards = {}
  /\ probe = NoProbe

LoopHostWrite == HostWrite(LoopFiles)

LoopNext ==
  \/ LoopHostWrite
  \/ HostWriteClose
  \/ BuildInitialPrompt
  \/ StartQuery
  \/ ForegroundReturn
  \/ \E k \in DOMAIN poller : PollIpcDuringQuery(k)
  \/ \E k \in DOMAIN poller : AbortReturn(k)
  \/ \E k \in DOMAIN poller : ForwardReturn(k)
  \/ WaitForIpcMessage
  \/ ArchiveConversation

LoopSpec == LoopInit /\ [][LoopNext]_vars

\* the steps of the process in the turn loop: the continuation of main, the
\* timer callbacks of the pollers and the completions of the engine calls
LoopProgram ==
  \/ BuildInitialPrompt
  \/ StartQuery
  \/ ForegroundReturn
  \/ \E k \in DOMAIN poller : PollIpcDuringQuery(k)
  \/ \E k \in DOMAIN poller : AbortReturn(k)
  \/ \E k \in DOMAIN poller : ForwardReturn(k)
  \/ WaitForIpcMessage
  \/ ArchiveConversation

\* the host side of the shutdown runs: at most ShutdownFiles inbox files
ShutdownHostWrite == HostWrite(ShutdownFiles)

ShutdownNext ==
  \/ ShutdownHostWrite
  \/ HostWriteClose
  \/ LoopProgram

\* the turn loop of a process whose event loop keeps running its timers and
\* continuations and whose engine calls all return: a step of the process
\* that stays possible is eventually taken. Nothing is assumed of the host
ShutdownSpec == LoopInit /\ [][ShutdownNext]_vars /\ WF_vars(LoopProgram)

\* ------------------------------------------------- one drain of an inbox
\* the program is not running: only the operation under test acts
Quiet ==
  /\ pc = "probe"
  /\ stdin = Garbage
  /\ sessionId = UNDEF
  /\ session = FALSE
  /\ prompt = UndefText
  /\ conversationMessages = <<>>
  /\ outputs = <<>>
  /\ sentinel = FALSE
  /\ nextFile = 1
  /\ closes = FALSE
  /\ turn = 0
  /\ poller = <<>>
  /\ engineCalls = <<>>
  /\ exitCode = -1
  /\ archived = <<>>
  /\ archiveResult = "none"
  /\ serverClosed = FALSE
  /\ closeDuring = 0
  /\ outcomes = <<>>
  /\ resume = "none"
  /\ written = {}
  /\ teardown = <<>>
  /\ failedForwards = {}

\* file names (without the extension) whose code-unit order differs from
\* their numeric order
ProbeNames == <<<<2>>, <<1, 0>>, <<1>>, <<9>>, <<1, 1>>, <<0>>>>

ProbeText(n) == <<"t" \o ToString(n)>>

\* the contents a file of the inbox can have: a well-formed message, text
\* that is not JSON, the JSON value null, another type, no text, an empty
\* text; and a file whose name does not end in .json
ProbeKinds == {"message", "garbage", "null", "other", "notext", "empty", "nojson"}

ProbeFile(n, kind) ==
  [name |-> n,
   dotJson |-> kind # "nojson",
   json |-> IF kind \in {"garbage", "null"} THEN kind ELSE "object",
   type |-> IF kind \in {"garbage", "null"} THEN UNDEF
            ELSE IF kind = "other" THEN "other" ELSE "message",
   text |-> IF kind \in {"garbage", "null", "notext"} THEN UndefText
            ELSE IF kind = "empty" THEN <<>> ELSE ProbeText(n)]

\* the directories: per name no file or a file of one kind
ProbeDirs ==
  LET names == { ProbeNames[i] : i \in 1..MaxProbeNames }
  IN { { ProbeFile(n, c[n]) : n \in { m \in names : c[m] # "absent" } } :
         c \in [names -> ProbeKinds \cup {"absent"}] }

DrainInit ==
  /\ Quiet
  /\ dir \in ProbeDirs
  /\ probe = [op |-> "drain"]

\* one call of drainIpcInput
ProbeDrain ==
  /\ probe.op = "drain"
  /\ LET d == drainIpcInput(dir)
     IN /\ dir' = d.dir
        /\ probe' = [op |-> "drained", before |-> dir, messages |-> d.messages,
                     unlinks |-> d.unlinks, raised |-> d.raised]
  /\ UNCHANGED <<pc, stdin, sessionId, session, prompt, conversationMessages,
                 outputs, sentinel, nextFile, closes, turn, poller, engineCalls,
                 exitCode, archived, archiveResult, serverClosed, closeDuring,
                 outcomes, resume, written, teardown, failedForwards>>

DrainNext == ProbeDrain

DrainSpec == DrainInit /\ [][DrainNext]_vars

\* ------------------------------------------- one envelope through stdout
\* the characters of the texts: plain ones, those JSON escapes, the markers
TextAtoms == {"a", "n", QUOTE, BACKSLASH, NEWLINE,
              OUTPUT_START_MARKER, OUTPUT_END_MARKER}

ProbeTexts == UNION { [1..k -> TextAtoms] : k \in 0..MaxTextLen }

FrameInit ==
  /\ Quiet
  /\ dir = {}
  /\ \E st \in {"success", "error"}, res \in {NullText} \cup ProbeTexts,
        sid \in {UNDEF, "sNew"}, hasError \in BOOLEAN,
        err \in {<<"fetch failed">>, <<OUTPUT_END_MARKER>>} :
       probe = [op |-> "write",
                output |-> ContainerOutput(st, res, sid,
                                           IF hasError THEN err ELSE UNDEF)]

\* the process writes the envelope
ProbeWrite ==
  /\ probe.op = "write"
  /\ probe' = [op |-> "written", output |-> probe.output,
               stdout |-> writeOutput(probe.output)]
  /\ UNCHANGED <<pc, stdin, sessionId, session, prompt, conversationMessages,
                 outputs, dir, sentinel, nextFile, closes, turn, poller,
                 engineCalls, exitCode, archived, archiveResult, serverClosed,
                 closeDuring, outcomes, resume, written, teardown, failedForwards>>

\* the host reads it back
ProbeParse ==
  /\ probe.op = "written"
  /\ probe' = [op |-> "parsed", output |-> probe.output,
               stdout |-> probe.stdout, parsed |-> HostParse(probe.stdout)]
  /\ UNCHANGED <<pc, stdin, sessionId, session, prompt, conversationMessages,
                 outputs, dir, sentinel, nextFile, closes, turn, poller,
                 engineCalls, exitCode, archived, archiveResult, serverClosed,
                 closeDuring, outcomes, resume, written, teardown, failedForwards>>

FrameNext == ProbeWrite \/ ProbeParse

FrameSpec == FrameInit /\ [][FrameNext]_vars

\* ------------------------------------------------------- reading the logs
\* the positions in engineCalls of the calls of one kind
CallsOf(op) == { i \in DOMAIN engineCalls : engineCalls[i].op = op }

\* the positions of the abort calls made by the poller of turn k
Aborts(k) == { i \in CallsOf("abort") : engineCalls[i].turn = k }

\* every finished runQuery call wrote one envelope of its own; the other
\* envelopes on stdout are the session updates main writes after a query
Heartbeats == Len(outputs) - Len(outcomes)

\* the session update envelope of line 502
Heartbeat(sid) == ContainerOutput("success", NullText, sid, UNDEF)

\* main has left the query loop
Teardown == pc \in {"archive", "done"}

\* ------------------------------------------------------------------ claims

\* C1 as stated: whenever the host creates the sentinel while a foreground
\* call is in flight, that call is aborted and the turn ends the loop.
C1_AsClaimed ==
  (closeDuring > 0 /\ ~(pc = "fg" /\ turn = closeDuring))
    => (Aborts(closeDuring) # {} /\ Teardown)

\* C1 (amended): when the poller of a turn observes the sentinel while the
\* foreground call of that turn is in flight, abort is called for the session,
\* after that call no reply-expecting prompt is submitted and the poller of the
\* turn makes no further call, no session update is written for the turn and
\* no new turn starts; once the foreground call has returned main is in
\* teardown, and it ends archived, with the engine closed and exit code 0.
C1_CloseDuringQuery ==
  \A k \in 1..turn : poller[k].closedDuringQuery =>
    /\ \E a \in Aborts(k) :
         /\ engineCalls[a].id = sessionId
         /\ \A j \in DOMAIN engineCalls : j > a =>
              (engineCalls[j].op # "prompt" /\ engineCalls[j].turn # k)
    /\ turn = k
    /\ Heartbeats = k - 1
    /\ pc = "fg" \/ Teardown
    /\ exitCode # 1
    /\ pc = "done" => (exitCode = 0 /\ archiveResult # "none" /\ serverClosed)

\* C1 witness: a run that ended after its second turn was closed by the poller
C1_Witness == pc = "done" /\ turn = 2 /\ poller[2].closedDuringQuery

\* C2: when the foreground call of a turn rejects and the poller of the turn
\* has not observed the sentinel, the step writes exactly one error envelope
\* (result null, the session id, the failure message) followed by the session
\* update, keeps the session id, and main waits for the next IPC message.
C2_QueryErrorContinues ==
  [][ (pc = "fg" /\ Len(outcomes') = Len(outcomes) + 1
        /\ outcomes'[Len(outcomes')].kind = "throw"
        /\ ~poller[turn].closedDuringQuery)
      => /\ outputs' = outputs \o
              <<ContainerOutput("error", NullText, sessionId, FgThrow.error),
                Heartbeat(sessionId)>>
         /\ pc' = "await"
         /\ sessionId' = sessionId
         /\ exitCode' = -1 ]_vars

\* C2 witness: a second query was submitted to the same session after the
\* first one had thrown
C2_Witness ==
  /\ pc = "fg" /\ turn = 2
  /\ outcomes[1].kind = "throw"
  /\ \A i \in CallsOf("prompt") : engineCalls[i].id = sessionId

\* the reply of Responses that carries text, and the text it carries
TextReply == Response(<<TextPart(<<"h">>), ToolPart, TextPart(<<"i">>)>>, UndefText)
ReplyText == <<"h", "i">>

\* C3: for a valid task without sessionId whose first query is answered with
\* a text reply (and is not closed by the poller), stdout starts with the
\* success envelope holding the text and the created session id, followed by
\* the session update with the same id, and nothing more is written while
\* main waits for the first IPC message.
C3_FirstTurnEnvelopes ==
  ( /\ ContainerInput(stdin) /\ stdin.sessionId = UNDEF
    /\ Len(outcomes) >= 1 /\ outcomes[1].kind = "data" /\ outcomes[1].data = TextReply
    /\ ~poller[1].closedDuringQuery )
  => /\ Len(outputs) >= 2
     /\ CallsOf("create") # {}
     /\ outputs[1] = ContainerOutput("success", ReplyText, "sNew", UNDEF)
     /\ outputs[2] = ContainerOutput("success", NullText, "sNew", UNDEF)
     /\ (turn = 1 /\ pc = "await") => Len(outputs) = 2

\* C3 witness: main blocked in waitForIpcMessage after such a first turn
C3_Witness ==
  /\ ContainerInput(stdin) /\ stdin.sessionId = UNDEF
  /\ turn = 1 /\ pc = "await" /\ dir = {} /\ ~sentinel
  /\ outcomes[1].kind = "data" /\ outcomes[1].data = TextReply

\* the entries of the conversation record with role user, in order
UserEntries == SelectSeq(conversationMessages, LAMBDA m : m.role = "user")

\* the reply-expecting prompts submitted to the engine, in order
RECURSIVE PromptsOf(_)
PromptsOf(calls) ==
  IF calls = <<>> THEN <<>>
  ELSE (IF Head(calls).op = "prompt" THEN <<Head(calls)>> ELSE <<>>)
         \o PromptsOf(Tail(calls))

\* C4 as stated: after every query answered with reply text the conversation
\* record holds an assistant entry with that text.
C4_AsClaimed ==
  \A k \in DOMAIN outcomes :
    (outcomes[k].kind = "data" /\ outcomes[k].data = TextReply)
      => \E i \in DOMAIN conversationMessages :
           /\ conversationMessages[i].role = "assistant"
           /\ conversationMessages[i].content = ReplyText

\* C5 as stated: the user entries of the record are, one to one and in order,
\* the reply-expecting prompts submitted to the engine; each entry was in the
\* record when its prompt was submitted and holds the prompt text.
C5_AsClaimed ==
  LET U == UserEntries
      P == PromptsOf(engineCalls)
  IN /\ Len(U) = Len(P)
     /\ \A i \in 1..Len(P) :
          /\ U[i].content = P[i].text
          /\ P[i].recLen >= i

\* C6 as stated: when the first turn is closed by the poller, the archiver
\* writes nothing.
C6_AsClaimed ==
  (pc = "done" /\ turn = 1 /\ poller[1].closedDuringQuery)
    => archiveResult # "written"

\* C6 (amended): when the first turn is closed by the poller, the archiver is
\* handed a record of exactly one entry, the user entry of that turn holding
\* the submitted prompt, and it attempts the write (it is not a no-op).
C6_FirstTurnClosedArchive ==
  (pc = "done" /\ turn = 1 /\ poller[1].closedDuringQuery)
    => /\ Len(archived) = 1
       /\ archived[1].role = "user"
       /\ \E i \in CallsOf("prompt") : archived[1].content = engineCalls[i].text
       /\ archiveResult \in {"written", "failed"}

\* C6 witness: the run ended after a first turn closed by the poller and the
\* transcript of that turn was written
C6_Witness ==
  /\ pc = "done" /\ turn = 1 /\ poller[1].closedDuringQuery
  /\ archiveResult = "written"

\* C7 as stated: when the create call fails, an error envelope is written
\* before the process ends.
C7_AsClaimed ==
  (pc = "crashed" /\ engineCalls # <<>>
     /\ engineCalls[Len(engineCalls)].op = "create")
    => \E i \in DOMAIN outputs : outputs[i].status = "error"

\* C8 as stated: the process ends with a non-zero status only when the input
\* could not be parsed.
C8_AsClaimed == exitCode = 1 => ParseThrows(stdin)

\* C9 as stated: for a document that is not a JSON object or lacks prompt or
\* groupFolder, loading fails: one error envelope without session id, exit
\* status 1, no engine call.
C9_AsClaimed ==
  (~ContainerInput(stdin) /\ pc # "parse")
    => /\ pc = "exited"
       /\ exitCode = 1
       /\ Len(outputs) = 1
       /\ outputs[1].status = "error"
       /\ outputs[1].newSessionId = UNDEF
       /\ engineCalls = <<>>

\* the calls addressed to a session
SessionCalls == CallsOf("context") \cup CallsOf("prompt") \cup CallsOf("forward")
                  \cup CallsOf("abort")

\* the envelopes with status error, and the queries that ended in an error
ErrorOutputs == { i \in DOMAIN outputs : outputs[i].status = "error" }
FailedQueries == { k \in DOMAIN outcomes : outcomes[k].kind \in {"error", "throw", "typeerror"} }

\* C10: create is called at most once, and only when no (non-empty) sessionId
\* was supplied or the fetch of the supplied one failed; once main is past
\* session establishment it was called in exactly those cases; it precedes
\* every call addressed to a session; every such call carries the one session
\* id of the run (the supplied id when resumed, the created id otherwise); a
\* failed fetch writes no envelope: the only error envelopes are those of
\* failed queries.
C10_SessionEstablishment ==
  LET creates == CallsOf("create")
      needed == ~Truthy(stdin.sessionId) \/ resume \in {"nodata", "throw"}
      theId == IF resume = "data" THEN stdin.sessionId ELSE "sNew"
  IN /\ Cardinality(creates) <= 1
     /\ creates # {} => needed
     /\ (pc \in {"inject", "build", "turn", "fg", "await"} \/ Teardown)
          => /\ needed => creates # {}
             /\ sessionId = theId
     /\ \A c \in creates : \A i \in SessionCalls : c < i
     /\ \A i \in SessionCalls : engineCalls[i].id = theId
     /\ ~ParseThrows(stdin) => Cardinality(ErrorOutputs) = Cardinality(FailedQueries)
     /\ turn = 0 /\ ~ParseThrows(stdin) => outputs = <<>>

\* C10 witness: after a failed fetch a session was created and addressed by a
\* prompt, a forward and an abort
C10_Witness ==
  /\ resume \in {"nodata", "throw"}
  /\ CallsOf("create") # {}
  /\ CallsOf("prompt") # {} /\ CallsOf("forward") # {} /\ CallsOf("abort") # {}

\* the files of a directory that drainIpcInput reads
JsonFiles(d) == { f \in d : f.dotJson }

\* the well-formed message files among them
WellFormed(d) == { f \in JsonFiles(d) : FileMessages(f) # <<>> }

\* the position of a file among the files of fs in filename-sort order
Rank(f, fs) == 1 + Cardinality({ g \in fs : LexLess(g.name, f.name) })

\* C11: one drain of an inbox that holds N well-formed message files with
\* distinct names and nothing else returns the N texts in filename-sort order
\* and leaves the directory empty.
C11_DrainAll ==
  (probe.op = "drained" /\ WellFormed(probe.before) = probe.before) =>
    /\ Len(probe.messages) = Cardinality(probe.before)
    /\ \A f \in probe.before :
         probe.messages[Rank(f, probe.before)] = f.text
    /\ dir = {}

\* C11 witness: three files named 1, 10, 2 were drained in that order
C11_Witness ==
  /\ probe.op = "drained"
  /\ WellFormed(probe.before) = probe.before
  /\ probe.messages = <<ProbeText(<<1>>), ProbeText(<<1, 0>>), ProbeText(<<2>>)>>
  /\ dir = {}

\* the successful unlinkSync calls of the drain for one name
Removals(n) == { i \in DOMAIN probe.unlinks :
                   probe.unlinks[i].name = n /\ probe.unlinks[i].ok }

\* C12: with malformed entries in the inbox a drain raises nothing, removes
\* every file it reads exactly once, leaves the other files, and returns the
\* texts of the well-formed messages, and only those, in filename-sort order.
C12_DrainMalformed ==
  probe.op = "drained" =>
    /\ ~probe.raised
    /\ \A f \in JsonFiles(probe.before) : Cardinality(Removals(f.name)) = 1
    /\ dir = probe.before \ JsonFiles(probe.before)
    /\ Len(probe.messages) = Cardinality(WellFormed(probe.before))
    /\ \A f \in WellFormed(probe.before) :
         probe.messages[Rank(f, WellFormed(probe.before))] = f.text

\* C12 witness: a drain of an unparseable file, a null file and two
\* well-formed messages around them
C12_Witness ==
  /\ probe.op = "drained"
  /\ \E f \in probe.before : f.json = "garbage"
  /\ \E f \in probe.before : f.json = "null" /\ f.name = <<1, 0>>
  /\ probe.messages = <<ProbeText(<<1>>), ProbeText(<<2>>)>>

\* C13: when the sentinel exists while main is in waitForIpcMessage, the wait
\* ends with null (main leaves the loop), the sentinel is removed, and the
\* message files that are pending are neither read nor turned into a prompt.
C13_CloseBeforeDrain ==
  [][ (pc = "await" /\ sentinel /\ (pc' # pc \/ ~(dir \subseteq dir')))
      => /\ pc' = "archive"
         /\ ~sentinel'
         /\ dir' = dir
         /\ prompt' = prompt
         /\ engineCalls' = engineCalls ]_vars

\* C13 witness: the wait that followed a completed turn returned null while a
\* well-formed message file was pending
C13_Witness ==
  /\ pc = "archive"
  /\ turn >= 1
  /\ ~poller[turn].closedDuringQuery
  /\ ~sentinel
  /\ \E f \in dir : FileMessages(f) # <<>>

\* C14 as stated: the three lines written for an envelope, split on the
\* marker literals and JSON-decoded, give back the envelope, whatever its
\* status, text, session id and error are.
C14_AsClaimed ==
  probe.op = "parsed" => SameOutput(probe.parsed, probe.output)

\* the texts for which the round trip does hold: those without the end marker
C14_RoundTripWithoutEndMarker ==
  (/\ probe.op = "parsed"
   /\ \A i \in DOMAIN probe.output.result :
        probe.output.result[i] # OUTPUT_END_MARKER
   /\ probe.output.error = UNDEF
        \/ probe.output.error # <<OUTPUT_END_MARKER>>)
  => SameOutput(probe.parsed, probe.output)

\* C15: whichever way main leaves the query loop, the step that follows hands
\* the conversation record to archiveConversation and then closes the engine
\* server, in that order; a failure of the archiver does not prevent the
\* close, and the process ends with status 0.
C15_TeardownAlways ==
  [][ (pc = "archive" /\ pc' # pc)
      => /\ pc' = "done"
         /\ archived' = conversationMessages
         /\ teardown' = <<"archiveConversation", "server.close">>
         /\ serverClosed'
         /\ exitCode' = 0 ]_vars

\* C15 witness: the archiver failed on a record of two turns, the engine was
\* closed and the status is 0
C15_Witness ==
  /\ pc = "done"
  /\ Len(archived) = 2
  /\ archiveResult = "failed"
  /\ teardown = <<"archiveConversation", "server.close">>
  /\ serverClosed
  /\ exitCode = 0

\* the foreground call of turn k has returned
Returned(k) == Len(outcomes) >= k

\* a step appends one call to engineCalls
NewCall == Len(engineCalls') = Len(engineCalls) + 1
LastCall == engineCalls'[Len(engineCalls')]

\* C16 as stated: once the foreground call of a turn has returned, the
\* poller of that turn makes no engine call and reads nothing from the
\* inbox, whatever its tick was doing.
C16_AsClaimed ==
  [][ \A k \in DOMAIN poller : (Returned(k) /\ poller'[k] # poller[k]) =>
        /\ engineCalls' = engineCalls
        /\ dir' = dir
        /\ sentinel' = sentinel ]_vars

\* C16 (amended): once the foreground call of a turn has returned, the poller
\* of that turn reads neither the sentinel nor the inbox, calls no abort and
\* arms no new tick; the only call it still makes is the forward of the next
\* message of the batch its running tick had drained before the return.
C16_PollerAfterReturn ==
  [][ \A k \in DOMAIN poller : (Returned(k) /\ poller'[k] # poller[k]) =>
        /\ dir' = dir
        /\ sentinel' = sentinel
        /\ poller'[k].pc # "armed"
        /\ engineCalls' # engineCalls =>
             /\ NewCall
             /\ poller[k].queue # <<>>
             /\ LastCall = Call("forward", sessionId, Head(poller[k].queue), k, 0)
             /\ poller'[k].queue = Tail(poller[k].queue) ]_vars

\* C16 witness: the poller of the first turn forwarded a message of its batch
\* after the prompt of the second turn was submitted, and has stopped
C16_Witness ==
  /\ poller[1].pc = "stopped"
  /\ \E i, j \in DOMAIN engineCalls :
       /\ i < j
       /\ engineCalls[i].op = "prompt" /\ engineCalls[i].turn = 2
       /\ engineCalls[j].op = "forward" /\ engineCalls[j].turn = 1

\* where the text of the i-th message file can be
InDir(i) == MessageFile(i) \in dir
InPrompt(i) == pc = "turn" /\ \E j \in DOMAIN prompt : prompt[j] = MsgText(i)[1]
Queued(i) == \E k \in DOMAIN poller : \E j \in DOMAIN poller[k].queue :
               poller[k].queue[j] = MsgText(i)
\* the positions in engineCalls of the calls that carry the i-th message
Carriers(i) ==
  { c \in DOMAIN engineCalls :
      /\ engineCalls[c].op \in {"prompt", "forward"}
      /\ \E j \in DOMAIN engineCalls[c].text : engineCalls[c].text[j] = MsgText(i)[1] }

\* those of them that did not fail as forwards: the message was submitted
Submissions(i) == Carriers(i) \ failedForwards

\* no poller has a call in flight or a batch to forward
PollersQuiet == \A k \in DOMAIN poller :
                  poller[k].pc \in {"idle", "armed", "stopped"}

\* C17 as stated: when the run has ended, every well-formed message file the
\* host wrote has been submitted to the engine, those pending when the
\* sentinel was observed and those whose forward failed included.
C17_AsClaimed ==
  (pc = "done" /\ PollersQuiet) => \A i \in written : Submissions(i) # {}

\* what does hold for C17: a message file that was read is handed to a call
\* (a prompt, or a forward that may fail and is then only logged); a file
\* that is not read stays in the inbox
C17_ReadIsHandedOver ==
  /\ \A i \in written : InDir(i) \/ InPrompt(i) \/ Queued(i) \/ Carriers(i) # {}
  /\ (pc = "done" /\ PollersQuiet) =>
       \A i \in written : InDir(i) \/ Carriers(i) # {}

\* how often the text of the i-th message occurs in a text
Occurrences(i, t) == Cardinality({ j \in DOMAIN t : t[j] = MsgText(i)[1] })

\* the positions of the i-th message in the batch of the poller of turn k
InBatch(i, k) == { j \in DOMAIN poller[k].queue : poller[k].queue[j] = MsgText(i) }

\* the number of places the i-th message is in: the inbox, the prompt main is
\* about to submit, the batches of the pollers, the calls made
Copies(i) ==
  (IF InDir(i) THEN 1 ELSE 0)
  + (IF pc = "turn" THEN Occurrences(i, prompt) ELSE 0)
  + Cardinality({ k \in DOMAIN poller : InBatch(i, k) # {} })
  + Cardinality(Carriers(i))

\* C18: under every interleaving of host writes, poller ticks and foreground
\* returns the text of a message file is carried by at most one engine call,
\* a turn prompt or a forward, and occurs once in it; a message that a call
\* carries is nowhere else.
C18_AtMostOnce ==
  \A i \in written :
    /\ Copies(i) = 1
    /\ \A c \in Carriers(i) : Occurrences(i, engineCalls[c].text) = 1
    /\ \A k \in DOMAIN poller : Cardinality(InBatch(i, k)) <= 1

\* C18 witness: three messages reached the engine, one in the initial prompt,
\* one as a forward of a poller, one as the prompt of a later turn
C18_Witness ==
  /\ pc = "done" /\ PollersQuiet
  /\ \E i, j, l \in written :
       /\ \E c \in Carriers(i) : engineCalls[c].op = "prompt" /\ engineCalls[c].turn = 1
       /\ \E c \in Carriers(j) : engineCalls[c].op = "forward"
       /\ \E c \in Carriers(l) : engineCalls[c].op = "prompt" /\ engineCalls[c].turn > 1

\* the pollers that await a forward
Forwarding == { k \in DOMAIN poller : poller[k].pc = "forwarding" }

\* C19 as stated: the forwards of the pollers are made one after the other,
\* so at no time more than one of them is in flight.
C19_AsClaimed == Cardinality(Forwarding) <= 1

\* the messages a call carries
Carried(c) == { i \in written : c \in Carriers(i) }

\* what does hold for C19: the forwards of the poller of one turn are made in
\* the order of the file names
C19_InOrderWithinTurn ==
  \A a, b \in CallsOf("forward") :
    (a < b /\ engineCalls[a].turn = engineCalls[b].turn) =>
      \A i \in Carried(a), j \in Carried(b) : i < j

\* C20 as stated: with file names whose order is the order of arrival, a
\* later message is never submitted to the engine before an earlier one,
\* whether they travel in prompts or in forwards.
C20_AsClaimed ==
  /\ \A a, b \in DOMAIN engineCalls :
       a < b => \A i \in Carried(a), j \in Carried(b) : i < j
  /\ \A c \in DOMAIN engineCalls : \A i, j \in Carried(c) :
       i < j => \A x, y \in DOMAIN engineCalls[c].text :
                  (engineCalls[c].text[x] = MsgText(i)[1]
                   /\ engineCalls[c].text[y] = MsgText(j)[1]) => x < y

\* ------------------------------------------------------------------ C21
\* C21: client.session.abort is called at most once per turn, and only by
\* the tick of the running turn's poller that finds the sentinel while the
\* foreground prompt of that turn has not returned (never before the first
\* turn or between turns); whether the abort call returns or throws, the
\* process goes on, the poller keeps closedDuringQuery set, and the return
\* of the foreground call then leads to the teardown.
C21_AbortOncePerTurn ==
  [][ /\ (NewCall /\ LastCall.op = "abort") =>
            /\ pc = "fg" /\ pc' = "fg"
            /\ turn >= 1 /\ turn' = turn
            /\ LastCall.turn = turn
            /\ Aborts(turn) = {}
            /\ ~Returned(turn)
            /\ poller[turn].ipcPolling
            /\ sentinel /\ ~sentinel'
            /\ poller'[turn].closedDuringQuery
      /\ \A k \in DOMAIN poller :
            (poller[k].pc = "aborting" /\ poller'[k].pc # "aborting") =>
               /\ poller'[k].closedDuringQuery
               /\ pc' = pc
               /\ exitCode' = exitCode
      /\ (Len(outcomes') > Len(outcomes) /\ Aborts(turn) # {}) =>
            pc' = "archive"
    ]_vars

\* a run whose first turn was aborted by its poller, with the abort call
\* returned and the teardown done
C21_Witness ==
  /\ pc = "done"
  /\ turn = 1
  /\ Cardinality(Aborts(1)) = 1
  /\ poller[1].pc = "stopped"
  /\ poller[1].closedDuringQuery
  /\ Returned(1)

\* ------------------------------------------------------------------ C22
\* C22: in the turn loop, when every engine call returns, a sentinel the
\* host creates is eventually deleted by shouldClose, no turn starts after
\* that, and the run eventually ends with the conversation handed to
\* archiveConversation and the server closed.
C22_NoShutdownDeadlock ==
  /\ closes ~> (closes /\ ~sentinel)
  /\ closes ~> (/\ pc = "done"
                /\ exitCode = 0
                /\ teardown = <<"archiveConversation", "server.close">>
                /\ serverClosed)
  /\ [][(closes /\ ~sentinel) => turn' = turn]_vars

\* the host created the sentinel during the second turn of the loop and the
\* run has ended
C22_Witness ==
  /\ closes
  /\ closeDuring = 2
  /\ ~sentinel
  /\ pc = "done"
  /\ serverClosed

\* ------------------------------------------------------------------ C23
\* C23 as stated: once the process has removed a sentinel the host created
\* after the process started, no turn is started any more. Line 418 of main
\* removes whatever sentinel exists when the setup runs, also one the host
\* created while the input was being read, and the turns start after it.
C23_AsClaimed ==
  [][(closes /\ ~sentinel) => (turn' = turn /\ pc' # "fg")]_vars
====
